---------------------------- MODULE Spec2Model ----------------------------
(***************************************************************************)
(* Model of the Billino desktop backend supervisor (src-tauri/src).        *)
(*                                                                         *)
(* The threads of the program are modelled with one program counter each:  *)
(*   main      main.rs setup closure (spawn, start of the two threads)     *)
(*   hw        main.rs start-up health-wait thread                         *)
(*   mb        monitor.rs monitor_backend (runs in its own thread)         *)
(*   poll      monitor.rs health-poll thread spawned by monitor_backend    *)
(*   sd        a caller of monitor.rs trigger_backup_and_shutdown          *)
(*   fl        the backup-request thread spawned by that call              *)
(* and the environment: the child process exiting by itself, and callers   *)
(* of kill_backend.  Every acquisition of a Monitor mutex is one step.     *)
(***************************************************************************)
EXTENDS Naturals, Sequences, FiniteSets, TLC

VARIABLES
    state,                 \* MONITOR.state : BackendState
    child,                 \* MONITOR.child : Option<Child>  ("None" | "Some")
    config,                \* MONITOR.config : Option<BackendConfig>
    procStatus,            \* the operating-system process of the backend
    mainPc,                \* main.rs setup closure
    hwPc,                  \* start-up health-wait thread, and what it emitted
    mbPc,                  \* monitor_backend
    pollPc,                \* health-poll loop
    consecutive_failures,  \* local counter of the health-poll loop
    streak,                \* history: failed cycles since the last successful one
    lastCycle,             \* history: outcome of the last finished health cycle
    cycleFrom,             \* history: lifecycle state when that outcome arrived
    pollEmitted,           \* notification the loop emitted in this iteration
    sdPc,                  \* trigger_backup_and_shutdown
    sdCfg,                 \* the config the call found registered
    sdWait,                \* time spent in recv_timeout, in units of 200 ms
    sdProceed,             \* history: why the call left the bounded wait
    sdKill,                \* history: what kill_child did for this call
    sdResult,              \* return value of trigger_backup_and_shutdown
    chan,                  \* messages in the sync_channel(1)
    flPc,                  \* backup-request thread
    flOutcome,             \* what the backup request attempt came to
    kbResult,              \* return value of the last direct kill_backend call
    ewPc,                  \* exit-watch of section 4.5 of the specification
    cfg,                   \* the BackendConfig the environment provides
    vResult,               \* return value of a direct call of validate
    mainLoad,              \* main.rs: result of load_config
    mainValid,             \* main.rs: result of config.validate()
    mainPort,              \* main.rs: result of is_port_available()
    hcPc,                  \* wait_until_healthy_blocking
    hcAttempt,             \* its local attempt
    hcNow,                 \* seconds since the call began (Instant::now())
    hcSlept,               \* history: seconds spent in backoff sleeps
    hcProbes,              \* history: calls of perform_health_check so far
    hcFirst,               \* history: the answers of the first probe calls
    hcAnyReady,            \* history: some probe call answered ready = true
    hcLastError,           \* its local last_error
    hcLastBackoff,         \* history: the backoff slept last
    hcResult,              \* return value of wait_until_healthy_blocking
    status,                \* return value of the last get_backend_status
    restartResult,         \* return value of the last restart_backend
    lastStatus,            \* history: the preceding get_backend_status result,
                           \* when no transition lies between the two calls
    quiet,                 \* history: no transition since the last query
    kills,                 \* history: kills issued on the stored child
    configLock,            \* holder of the Monitor's config mutex
    source,                \* the answers of the probe source, call by call
    aPc,                   \* wait_until_healthy_async
    aAttempt,              \* its local attempt
    aNow,                  \* seconds since its call began
    aProbes,               \* history: its calls of perform_health_check_async
    aLastBackoff,          \* history: the backoff it slept last
    aResult                \* its return value

vars == <<state, child, config, procStatus, mainPc, hwPc, mbPc, pollPc,
          consecutive_failures, streak, lastCycle, cycleFrom, pollEmitted,
          sdPc, sdCfg, sdWait, sdProceed, sdKill, sdResult, chan, flPc,
          flOutcome, kbResult, ewPc, cfg, vResult, mainLoad, mainValid,
          mainPort, hcPc, hcAttempt, hcNow, hcSlept, hcProbes, hcFirst,
          hcAnyReady, hcLastError, hcLastBackoff, hcResult, status,
          restartResult, lastStatus, quiet, kills, configLock, source, aPc,
          aAttempt, aNow, aProbes, aLastBackoff, aResult>>

---------------------------------------------------------------------------
(* Bounds of the model *)

\* consecutive_failures and streak saturate here (the code only tests >= 3)
FailureCap == 4

(* Program constants *)

\* monitor.rs:97  if consecutive_failures >= 3
UnhealthyThreshold == 3

\* monitor.rs:174 recv_timeout(Duration::from_millis(400)), in units of 200 ms
RecvTimeoutTicks == 2

---------------------------------------------------------------------------
(* state.rs *)

BackendState == {"NotStarted", "Starting", "Healthy", "Unhealthy", "Stopping",
                 "StoppedClean", "StoppedForce", "Crashed"}

is_running(s) == s \in {"Starting", "Healthy"}

is_healthy(s) == s = "Healthy"

is_stopped_NoCrashed(s) == s \in {"StoppedClean", "StoppedForce"}

is_stopped(s) == s \in {"StoppedClean", "StoppedForce", "Crashed"}

\* state.rs:47-58, which Display (to_string) writes out
description(s) ==
    CASE s = "NotStarted" -> "Not Started"
      [] s = "Starting" -> "Starting"
      [] s = "Healthy" -> "Healthy"
      [] s = "Unhealthy" -> "Unhealthy"
      [] s = "Stopping" -> "Stopping"
      [] s = "StoppedClean" -> "Stopped (Clean)"
      [] s = "StoppedForce" -> "Stopped (Forced)"
      [] s = "Crashed" -> "Crashed"

---------------------------------------------------------------------------
(* helpers *)

Min(a, b) == IF a < b THEN a ELSE b

ProcAlive == procStatus = "running"

mainVars == <<mainPc, hwPc, mbPc>>

monVars == <<state, child, config>>

pollHist == <<streak, lastCycle, cycleFrom, pollEmitted>>

sdVars == <<sdPc, sdCfg, sdWait, sdProceed, sdKill, sdResult>>

flVars == <<chan, flPc, flOutcome>>

cfgVars == <<cfg, vResult>>

startVars == <<mainLoad, mainValid, mainPort>>

hcVars == <<hcPc, hcAttempt, hcNow, hcSlept, hcProbes, hcFirst, hcAnyReady,
            hcLastError, hcLastBackoff, hcResult>>

qVars == <<status, restartResult, lastStatus, quiet>>

otherVars == <<cfgVars, startVars, hcVars, qVars>>

lockVars == <<kills, configLock>>

asyncVars == <<source, aPc, aAttempt, aNow, aProbes, aLastBackoff, aResult>>

---------------------------------------------------------------------------
(* config.rs: BackendConfig and validate.  Only the fields validate and   *)
(* the start-up sequence read are kept; binary_exists stands for          *)
(* binary_path.exists().  port is a u16.                                  *)
MinPort == 1024

U16Max == 65535

MinStartupTimeout == 5

MinShutdownTimeout == 10

DefaultPort == 8000

DefaultStartupTimeout == 30

DefaultShutdownTimeout == 30

DefaultMaxRestartAttempts == 3

\* the longest startup timeout the health wait is explored with
MaxStartupTimeout == 30

Hosts == {"", "127.0.0.1"}

Ports == {0, MinPort - 1, MinPort, DefaultPort, U16Max}

StartupTimeouts ==
    {MinStartupTimeout - 1, MinStartupTimeout, DefaultStartupTimeout,
     MaxStartupTimeout}

ShutdownTimeouts ==
    {MinShutdownTimeout - 1, MinShutdownTimeout, DefaultShutdownTimeout}

BackendConfig ==
    [host : Hosts, port : Ports, binary_exists : BOOLEAN,
     startup_timeout_secs : StartupTimeouts,
     shutdown_timeout_secs : ShutdownTimeouts,
     auto_restart : BOOLEAN,
     max_restart_attempts : {DefaultMaxRestartAttempts}]

DefaultConfig ==
    [host |-> "127.0.0.1", port |-> DefaultPort, binary_exists |-> TRUE,
     startup_timeout_secs |-> DefaultStartupTimeout,
     shutdown_timeout_secs |-> DefaultShutdownTimeout,
     auto_restart |-> TRUE,
     max_restart_attempts |-> DefaultMaxRestartAttempts]

OkResult == [kind |-> "Ok", what |-> ""]

\* validate has not been called
NoResult == [kind |-> "none", what |-> ""]

ErrResult(kind, what) == [kind |-> kind, what |-> what]

validate_TimeoutsFirst(c) ==
    IF c.host = "" THEN ErrResult("ConfigError", "host")
    ELSE IF c.port < MinPort \/ c.port > U16Max
         THEN ErrResult("ConfigError", "port")
    ELSE IF c.startup_timeout_secs < MinStartupTimeout
         THEN ErrResult("ConfigError", "startup_timeout_secs")
    ELSE IF c.shutdown_timeout_secs < MinShutdownTimeout
         THEN ErrResult("ConfigError", "shutdown_timeout_secs")
    ELSE IF ~c.binary_exists
         THEN ErrResult("BinaryNotFound", "binary_path")
    ELSE OkResult

validate_BinaryFirst(c) ==
    IF ~c.binary_exists THEN ErrResult("BinaryNotFound", "binary_path")
    ELSE IF c.host = "" THEN ErrResult("ConfigError", "host")
    ELSE IF c.port < MinPort \/ c.port > U16Max
         THEN ErrResult("ConfigError", "port")
    ELSE IF c.startup_timeout_secs < MinStartupTimeout
         THEN ErrResult("ConfigError", "startup_timeout_secs")
    ELSE IF c.shutdown_timeout_secs < MinShutdownTimeout
         THEN ErrResult("ConfigError", "shutdown_timeout_secs")
    ELSE OkResult

validate_NoShutdownCheck(c) ==
    IF c.host = "" THEN ErrResult("ConfigError", "host")
    ELSE IF c.port < MinPort \/ c.port > U16Max
         THEN ErrResult("ConfigError", "port")
    ELSE IF ~c.binary_exists
         THEN ErrResult("BinaryNotFound", "binary_path")
    ELSE IF c.startup_timeout_secs < MinStartupTimeout
         THEN ErrResult("ConfigError", "startup_timeout_secs")
    ELSE OkResult

\* config.rs:67-102
validate(c) ==
    IF c.host = "" THEN ErrResult("ConfigError", "host")
    ELSE IF c.port < MinPort \/ c.port > U16Max
         THEN ErrResult("ConfigError", "port")
    ELSE IF ~c.binary_exists
         THEN ErrResult("BinaryNotFound", "binary_path")
    ELSE IF c.startup_timeout_secs < MinStartupTimeout
         THEN ErrResult("ConfigError", "startup_timeout_secs")
    ELSE IF c.shutdown_timeout_secs < MinShutdownTimeout
         THEN ErrResult("ConfigError", "shutdown_timeout_secs")
    ELSE OkResult

(* The configurations the environment of one application run provides:   *)
(* the defaults of load_config, and one for each way validate can fail.  *)
RunConfigs ==
    {DefaultConfig,
     [DefaultConfig EXCEPT !.port = MinPort - 1],
     [DefaultConfig EXCEPT !.binary_exists = FALSE],
     [DefaultConfig EXCEPT !.shutdown_timeout_secs = MinShutdownTimeout - 1]}

---------------------------------------------------------------------------
MonitorInit ==
    /\ state = "NotStarted"
    /\ child = "None"
    /\ config = "None"

ThreadsInit ==
    /\ procStatus = "unspawned"
    /\ mainPc = "load"
    /\ hwPc = "none"
    /\ mbPc = "none"
    /\ pollPc = "none"
    /\ consecutive_failures = 0
    /\ streak = 0
    /\ lastCycle = "none"
    /\ cycleFrom = "none"
    /\ pollEmitted = "none"
    /\ sdPc = "idle"
    /\ sdCfg = "none"
    /\ sdWait = 0
    /\ sdProceed = "none"
    /\ sdKill = "none"
    /\ sdResult = "none"
    /\ chan = 0
    /\ flPc = "none"
    /\ flOutcome = "none"
    /\ kbResult = "none"
    /\ ewPc = "none"
    /\ mainLoad = NoResult
    /\ mainValid = NoResult
    /\ mainPort = "none"
    /\ kills = 0
    /\ configLock = "free"

HealthIdle ==
    /\ hcPc = "none"
    /\ hcAttempt = 0
    /\ hcNow = 0
    /\ hcSlept = 0
    /\ hcProbes = 0
    /\ hcFirst = <<>>
    /\ hcAnyReady = FALSE
    /\ hcLastError = "None"
    /\ hcLastBackoff = 0
    /\ hcResult = [kind |-> "none", ready |-> FALSE, duration_secs |-> 0]

\* get_backend_status has not been called
NoStatus ==
    [state |-> "none", is_running |-> FALSE, is_healthy |-> FALSE,
     can_restart |-> FALSE]

QueryIdle ==
    /\ status = NoStatus
    /\ restartResult = "none"
    /\ lastStatus = NoStatus
    /\ quiet = FALSE

\* wait_until_healthy_async has not been called
AsyncIdle ==
    /\ source = <<>>
    /\ aPc = "none"
    /\ aAttempt = 0
    /\ aNow = 0
    /\ aProbes = 0
    /\ aLastBackoff = 0
    /\ aResult = [kind |-> "none", ready |-> FALSE, duration_secs |-> 0]

Init ==
    /\ MonitorInit
    /\ ThreadsInit
    /\ cfg \in RunConfigs
    /\ vResult = NoResult
    /\ HealthIdle
    /\ QueryIdle
    /\ AsyncIdle

---------------------------------------------------------------------------
(* main.rs: setup closure, up to the spawn *)
MainLoad ==
    /\ mainPc = "load"
    /\ \E io \in {"ok", "err"} :
         LET r == IF io = "err" THEN ErrResult("Internal", "load")
                  ELSE validate(cfg)
         IN  /\ mainLoad' = r
             /\ mainPc' = IF r = OkResult THEN "validate" ELSE "aborted_error"
    /\ UNCHANGED <<state, child, config, procStatus, hwPc, mbPc, pollPc,
                   consecutive_failures, pollHist, sdVars, flVars, kbResult,
                   ewPc, cfgVars, mainValid, mainPort, hcVars, qVars,
                   lockVars, asyncVars>>

(* binary_path.exists() is read again: the file may be gone by now *)
MainValidate ==
    /\ mainPc = "validate"
    /\ \E seen \in BOOLEAN :
         LET r == validate([cfg EXCEPT !.binary_exists = seen])
         IN  /\ mainValid' = r
             /\ mainPc' = IF r = OkResult THEN "port" ELSE "aborted_error"
    /\ UNCHANGED <<state, child, config, procStatus, hwPc, mbPc, pollPc,
                   consecutive_failures, pollHist, sdVars, flVars, kbResult,
                   ewPc, cfgVars, mainLoad, mainPort, hcVars, qVars,
                   lockVars, asyncVars>>

is_port_available == {"Ok(true)", "Ok(false)", "Err"}

PortUsable_ErrAsFree(r) == r # "Ok(false)"

PortUsable(r) == r = "Ok(true)"

MainPort ==
    /\ mainPc = "port"
    /\ \E r \in is_port_available :
         /\ mainPort' = r
         /\ mainPc' = IF PortUsable(r) THEN "spawn" ELSE "aborted_error"
    /\ UNCHANGED <<state, child, config, procStatus, hwPc, mbPc, pollPc,
                   consecutive_failures, pollHist, sdVars, flVars, kbResult,
                   ewPc, cfgVars, mainLoad, mainValid, hcVars, qVars,
                   lockVars, asyncVars>>

---------------------------------------------------------------------------
(* main.rs: setup closure, from the spawn on *)

MainSpawn ==
    /\ mainPc = "spawn"
    /\ \E ok \in BOOLEAN :
          IF ok
          THEN /\ procStatus' = "running"
               /\ mainPc' = "threads"
          ELSE /\ procStatus' = procStatus
               /\ mainPc' = "aborted_error"
    /\ UNCHANGED <<monVars, hwPc, mbPc, pollPc, consecutive_failures,
                   pollHist, sdVars, flVars, kbResult, ewPc, otherVars,
                   lockVars, asyncVars>>

MainStartThreads ==
    /\ mainPc = "threads"
    /\ mainPc' = "done"
    /\ hwPc' = "waiting"
    /\ mbPc' = "set_state"
    /\ UNCHANGED <<monVars, procStatus, pollPc, consecutive_failures,
                   pollHist, sdVars, flVars, kbResult, ewPc, otherVars,
                   lockVars, asyncVars>>

\* start-up health wait: emits ready or error, never touches the Monitor
HwFinish ==
    /\ hwPc = "waiting"
    /\ \E ok \in BOOLEAN :
          /\ ok => ProcAlive
          /\ hwPc' = IF ok THEN "emitted_ready" ELSE "emitted_error"
    /\ UNCHANGED <<monVars, procStatus, mainPc, mbPc, pollPc,
                   consecutive_failures, pollHist, sdVars, flVars, kbResult,
                   ewPc, otherVars, lockVars, asyncVars>>

---------------------------------------------------------------------------
(* monitor.rs: monitor_backend *)

MbSetState ==
    /\ mbPc = "set_state"
    /\ state' = "Starting"
    /\ mbPc' = "set_child"
    /\ UNCHANGED <<child, config, procStatus, mainPc, hwPc, pollPc,
                   consecutive_failures, pollHist, sdVars, flVars, kbResult,
                   ewPc, otherVars, lockVars, asyncVars>>

MbSetChild ==
    /\ mbPc = "set_child"
    /\ child' = "Some"
    /\ mbPc' = "set_config"
    /\ UNCHANGED <<state, config, procStatus, mainPc, hwPc, pollPc,
                   consecutive_failures, pollHist, sdVars, flVars, kbResult,
                   ewPc, otherVars, lockVars, asyncVars>>

\* monitor.rs:40-42  set_config locks the config mutex for the assignment
MbSetConfig ==
    /\ mbPc = "set_config"
    /\ configLock = "free"
    /\ config' = "Some"
    /\ mbPc' = "spawn_poll"
    /\ UNCHANGED <<state, child, procStatus, mainPc, hwPc, pollPc,
                   consecutive_failures, pollHist, sdVars, flVars, kbResult,
                   ewPc, otherVars, lockVars, asyncVars>>

MbSpawnPoll ==
    /\ mbPc = "spawn_poll"
    /\ mbPc' = "done"
    /\ pollPc' = "sleep"
    /\ consecutive_failures' = 0
    /\ UNCHANGED <<monVars, procStatus, mainPc, hwPc, pollHist, sdVars,
                   flVars, kbResult, ewPc, otherVars, lockVars, asyncVars>>

---------------------------------------------------------------------------
(* monitor.rs: the health-poll loop spawned by monitor_backend *)

\* monitor.rs:95  consecutive_failures += 1
NextFailures(cf) == Min(cf + 1, FailureCap)

ReachedThreshold_Two(cf) == cf >= 2

\* monitor.rs:97  if consecutive_failures >= 3
ReachedThreshold(cf) == cf >= UnhealthyThreshold

\* monitor.rs:92  consecutive_failures = 0
AfterSuccess(cf) == 0

NeedsRecovery_OnlyStarting(s) == s = "Starting"

\* monitor.rs:87  if MONITOR.get_state() != BackendState::Healthy
NeedsRecovery(s) == s # "Healthy"

\* monitor.rs:98  if MONITOR.get_state() != BackendState::Unhealthy
NeedsDegrade(s) == s # "Unhealthy"

\* the interval sleep is over; get_state().is_stopped() decides on the break
PollCheck ==
    /\ pollPc = "sleep"
    /\ pollPc' = IF is_stopped(state) THEN "done" ELSE "cycle"
    /\ UNCHANGED <<monVars, procStatus, mainVars, consecutive_failures,
                   pollHist, sdVars, flVars, kbResult, ewPc, otherVars,
                   lockVars, asyncVars>>

\* wait_until_healthy_blocking returns; Ok needs an answer of the live child
PollCycle ==
    /\ pollPc = "cycle"
    /\ \E ok \in BOOLEAN :
          /\ ok => ProcAlive
          /\ IF ok
             THEN /\ lastCycle' = "ok"
                  /\ streak' = 0
                  /\ consecutive_failures' = consecutive_failures
                  /\ pollPc' = "ok_get"
             ELSE /\ lastCycle' = "err"
                  /\ streak' = Min(streak + 1, FailureCap)
                  /\ consecutive_failures' = NextFailures(consecutive_failures)
                  /\ pollPc' = IF ReachedThreshold(consecutive_failures')
                               THEN "err_get" ELSE "sleep"
    /\ cycleFrom' = state
    /\ pollEmitted' = "none"
    /\ UNCHANGED <<monVars, procStatus, mainVars, sdVars, flVars, kbResult,
                   ewPc, otherVars, lockVars, asyncVars>>

PollOkGet ==
    /\ pollPc = "ok_get"
    /\ IF NeedsRecovery(state)
       THEN /\ pollPc' = "ok_set"
            /\ consecutive_failures' = consecutive_failures
       ELSE /\ pollPc' = "sleep"
            /\ consecutive_failures' = AfterSuccess(consecutive_failures)
    /\ UNCHANGED <<monVars, procStatus, mainVars, pollHist, sdVars, flVars,
                   kbResult, ewPc, otherVars, lockVars, asyncVars>>

PollOkSet ==
    /\ pollPc = "ok_set"
    /\ state' = "Healthy"
    /\ pollPc' = "ok_emit"
    /\ UNCHANGED <<child, config, procStatus, mainVars,
                   consecutive_failures, pollHist, sdVars, flVars, kbResult,
                   ewPc, otherVars, lockVars, asyncVars>>

PollOkEmit ==
    /\ pollPc = "ok_emit"
    /\ pollEmitted' = "ready"
    /\ consecutive_failures' = AfterSuccess(consecutive_failures)
    /\ pollPc' = "sleep"
    /\ UNCHANGED <<monVars, procStatus, mainVars, streak, lastCycle,
                   cycleFrom, sdVars, flVars, kbResult, ewPc, otherVars,
                   lockVars, asyncVars>>

PollErrGet ==
    /\ pollPc = "err_get"
    /\ pollPc' = IF NeedsDegrade(state) THEN "err_set" ELSE "sleep"
    /\ UNCHANGED <<monVars, procStatus, mainVars, consecutive_failures,
                   pollHist, sdVars, flVars, kbResult, ewPc, otherVars,
                   lockVars, asyncVars>>

PollErrSet_Crashed ==
    /\ pollPc = "err_set"
    /\ state' = "Crashed"
    /\ pollPc' = "err_emit"
    /\ UNCHANGED <<child, config, procStatus, mainVars,
                   consecutive_failures, pollHist, sdVars, flVars, kbResult,
                   ewPc, otherVars, lockVars, asyncVars>>

\* monitor.rs:103
PollErrSet ==
    /\ pollPc = "err_set"
    /\ state' = "Unhealthy"
    /\ pollPc' = "err_emit"
    /\ UNCHANGED <<child, config, procStatus, mainVars,
                   consecutive_failures, pollHist, sdVars, flVars, kbResult,
                   ewPc, otherVars, lockVars, asyncVars>>

PollErrEmit ==
    /\ pollPc = "err_emit"
    /\ pollEmitted' = "unhealthy"
    /\ pollPc' = "sleep"
    /\ UNCHANGED <<monVars, procStatus, mainVars, consecutive_failures,
                   streak, lastCycle, cycleFrom, sdVars, flVars, kbResult,
                   ewPc, otherVars, lockVars, asyncVars>>

---------------------------------------------------------------------------
(* monitor.rs: kill_child, kill_backend *)

\* Child::kill of the taken handle, as the operating system answers it
KilledStatus(killOk) ==
    IF child = "Some" /\ killOk /\ procStatus = "running"
    THEN "killed" ELSE procStatus

kill_child_result_AlwaysOk(killOk) == "Ok"

\* monitor.rs:44-55  the value kill_child returns
kill_child_result(killOk) ==
    IF child = "Some" /\ ~killOk THEN "Err" ELSE "Ok"

\* what the call did, for the record
KillRecord(killOk) ==
    IF child = "Some" THEN (IF killOk THEN "ok" ELSE "failed") ELSE "nochild"

KillCap == 2

\* Child::kill is called when a handle was stored
KillsAfter == IF child = "Some" THEN Min(kills + 1, KillCap) ELSE kills

child_lock_take_Keep == child

\* monitor.rs:46  what child_lock.take() leaves in the Monitor
child_lock_take == "None"

\* kill_backend called directly; kill_child holds the child mutex throughout
KillBackend ==
    /\ \E killOk \in BOOLEAN :
          /\ child' = child_lock_take
          /\ procStatus' = KilledStatus(killOk)
          /\ kbResult' = kill_child_result(killOk)
    /\ kills' = KillsAfter
    /\ UNCHANGED <<state, config, mainVars, pollPc, consecutive_failures,
                   pollHist, sdVars, flVars, ewPc, otherVars, configLock,
                   asyncVars>>

\* the backend process ends by itself
ChildExit ==
    /\ procStatus = "running"
    /\ \E code \in {0, 1} :
          procStatus' = IF code = 0 THEN "exited0" ELSE "exitedErr"
    /\ UNCHANGED <<monVars, mainVars, pollPc, consecutive_failures,
                   pollHist, sdVars, flVars, kbResult, ewPc, otherVars,
                   lockVars, asyncVars>>

---------------------------------------------------------------------------
(* monitor.rs: trigger_backup_and_shutdown and its backup-request thread *)

\* monitor.rs:128  the guard returned by MONITOR.config.lock() is a temporary
\* of the scrutinee of the if let: it lives to the end of the if let block
ScrutineeGuard(c) == IF c = "Some" THEN "shutdown" ELSE "free"

\* monitor.rs:128-137  the config is read under its mutex; with a config the
\* channel is created and the request thread spawned
SdCall ==
    /\ sdPc \in {"idle", "done"}
    /\ configLock = "free"
    /\ configLock' = ScrutineeGuard(config)
    /\ flPc \in {"none", "finished"}
    /\ sdCfg' = config
    /\ sdWait' = 0
    /\ sdProceed' = "none"
    /\ sdKill' = "none"
    /\ sdResult' = "none"
    /\ chan' = 0
    /\ flOutcome' = "none"
    /\ IF config = "Some"
       THEN /\ sdPc' = "waiting"
            /\ flPc' = "build"
       ELSE /\ sdPc' = "kill"
            /\ flPc' = flPc
    /\ UNCHANGED <<monVars, procStatus, mainVars, pollPc,
                   consecutive_failures, pollHist, kbResult, ewPc,
                   otherVars, kills, asyncVars>>

\* 200 ms pass while the caller is blocked in recv_timeout
SdTick ==
    /\ sdPc = "waiting"
    /\ sdWait < RecvTimeoutTicks
    /\ sdWait' = sdWait + 1
    /\ UNCHANGED <<monVars, procStatus, mainVars, pollPc,
                   consecutive_failures, pollHist, sdPc, sdCfg, sdProceed,
                   sdKill, sdResult, flVars, kbResult, ewPc, otherVars,
                   lockVars, asyncVars>>

\* monitor.rs:175  recv_timeout returns Ok(())
SdRecvOk ==
    /\ sdPc = "waiting"
    /\ chan = 1
    /\ chan' = 0
    /\ sdProceed' = "signalled"
    /\ sdPc' = "kill"
    /\ configLock' = "free"
    /\ UNCHANGED <<monVars, procStatus, mainVars, pollPc,
                   consecutive_failures, pollHist, sdCfg, sdWait, sdKill,
                   sdResult, flPc, flOutcome, kbResult, ewPc, otherVars,
                   kills, asyncVars>>

SdRecvTimeout_NoWait ==
    /\ sdPc = "waiting"
    /\ chan = 0
    /\ sdProceed' = "timeout"
    /\ sdPc' = "kill"
    /\ configLock' = "free"
    /\ UNCHANGED <<monVars, procStatus, mainVars, pollPc,
                   consecutive_failures, pollHist, sdCfg, sdWait, sdKill,
                   sdResult, flVars, kbResult, ewPc, otherVars, kills,
                   asyncVars>>

SdRecvTimeout_Abort ==
    /\ sdPc = "waiting"
    /\ chan = 0
    /\ sdWait = RecvTimeoutTicks
    /\ sdProceed' = "timeout"
    /\ sdResult' = "Err"
    /\ sdPc' = "done"
    /\ configLock' = "free"
    /\ UNCHANGED <<monVars, procStatus, mainVars, pollPc,
                   consecutive_failures, pollHist, sdCfg, sdWait, sdKill,
                   flVars, kbResult, ewPc, otherVars, kills, asyncVars>>

SdRecvTimeout_KeepsLock ==
    /\ sdPc = "waiting"
    /\ chan = 0
    /\ sdWait = RecvTimeoutTicks
    /\ sdProceed' = "timeout"
    /\ sdPc' = "kill"
    /\ UNCHANGED <<monVars, procStatus, mainVars, pollPc,
                   consecutive_failures, pollHist, sdCfg, sdWait, sdKill,
                   sdResult, flVars, kbResult, ewPc, otherVars, lockVars,
                   asyncVars>>

\* monitor.rs:178  recv_timeout returns Err after 400 ms without a message
SdRecvTimeout ==
    /\ sdPc = "waiting"
    /\ chan = 0
    /\ sdWait = RecvTimeoutTicks
    /\ sdProceed' = "timeout"
    /\ sdPc' = "kill"
    /\ configLock' = "free"
    /\ UNCHANGED <<monVars, procStatus, mainVars, pollPc,
                   consecutive_failures, pollHist, sdCfg, sdWait, sdKill,
                   sdResult, flVars, kbResult, ewPc, otherVars, kills,
                   asyncVars>>

\* monitor.rs:188  kill_backend() is the tail call; its result is returned
SdKill ==
    /\ sdPc = "kill"
    /\ \E killOk \in BOOLEAN :
          /\ child' = child_lock_take
          /\ procStatus' = KilledStatus(killOk)
          /\ sdKill' = KillRecord(killOk)
          /\ sdResult' = kill_child_result(killOk)
    /\ kills' = KillsAfter
    /\ sdPc' = "done"
    /\ UNCHANGED <<state, config, mainVars, pollPc, consecutive_failures,
                   pollHist, sdCfg, sdWait, sdProceed, flVars, kbResult,
                   ewPc, otherVars, configLock, asyncVars>>

\* monitor.rs:138-149  Client::builder()...build()
FlBuild ==
    /\ flPc = "build"
    /\ \E ok \in BOOLEAN :
          IF ok
          THEN /\ flPc' = "request"
               /\ flOutcome' = flOutcome
          ELSE /\ flPc' = "signal"
               /\ flOutcome' = "build_failed"
    /\ UNCHANGED <<monVars, procStatus, mainVars, pollPc,
                   consecutive_failures, pollHist, sdVars, chan, kbResult,
                   ewPc, otherVars, lockVars, asyncVars>>

\* monitor.rs:152  client.post(&url).send(); an answer needs the live child
FlRequest ==
    /\ flPc = "request"
    /\ \E out \in {"2xx", "non2xx", "refused", "timeout"} :
          /\ out \in {"2xx", "non2xx"} => ProcAlive
          /\ flOutcome' = out
    /\ flPc' = "signal"
    /\ UNCHANGED <<monVars, procStatus, mainVars, pollPc,
                   consecutive_failures, pollHist, sdVars, chan, kbResult,
                   ewPc, otherVars, lockVars, asyncVars>>

\* monitor.rs:146,155  let _ = tx.send(()); lost when the receiver is gone
FlSignal ==
    /\ flPc = "signal"
    /\ chan' = IF sdPc = "waiting" THEN 1 ELSE chan
    /\ flPc' = "finished"
    /\ UNCHANGED <<monVars, procStatus, mainVars, pollPc,
                   consecutive_failures, pollHist, sdVars, flOutcome,
                   kbResult, ewPc, otherVars, lockVars, asyncVars>>

---------------------------------------------------------------------------
(* The exit-watch loop of section 4.5 of the specification.  No source     *)
(* file contains it; it is part of SpecEW only, never of Spec.             *)

ExitWatch ==
    /\ ewPc = "none"
    /\ pollPc # "none"
    /\ procStatus \in {"exited0", "exitedErr", "killed"}
    /\ ewPc' = IF procStatus = "exited0" THEN "emitted_stopped"
                                        ELSE "emitted_crashed"
    /\ state' = IF procStatus = "exited0" THEN "StoppedClean" ELSE "Crashed"
    /\ UNCHANGED <<child, config, procStatus, mainVars, pollPc,
                   consecutive_failures, pollHist, sdVars, flVars, kbResult,
                   otherVars, lockVars, asyncVars>>

---------------------------------------------------------------------------
(* config.rs: validate called on any configuration *)
ConfigInit ==
    /\ MonitorInit
    /\ ThreadsInit
    /\ cfg \in BackendConfig
    /\ vResult = NoResult
    /\ HealthIdle
    /\ QueryIdle
    /\ AsyncIdle

Validate ==
    /\ vResult = NoResult
    /\ vResult' = validate(cfg)
    /\ UNCHANGED <<monVars, procStatus, mainVars, pollPc,
                   consecutive_failures, pollHist, sdVars, flVars, kbResult,
                   ewPc, cfg, startVars, hcVars, qVars, lockVars,
                   asyncVars>>

ConfigNext == Validate

ConfigSpec == ConfigInit /\ [][ConfigNext]_vars

---------------------------------------------------------------------------
(* commands/backend.rs: the status query and the restart command, called  *)
(* in any lifecycle state                                                 *)
StatusInit ==
    /\ state \in BackendState
    /\ child = "None"
    /\ config = "None"
    /\ ThreadsInit
    /\ cfg = DefaultConfig
    /\ vResult = NoResult
    /\ HealthIdle
    /\ QueryIdle
    /\ AsyncIdle

qFrame ==
    <<procStatus, mainVars, pollPc, consecutive_failures, pollHist, sdVars,
      flVars, kbResult, ewPc, cfgVars, startVars, hcVars>>

\* monitor.rs:30-33
SetState ==
    /\ \E s \in BackendState :
         /\ state' = s
         /\ quiet' = (quiet /\ s = state)
    /\ UNCHANGED <<child, config, status, restartResult, lastStatus, qFrame,
                   lockVars, asyncVars>>

GetBackendStatus_Resets ==
    /\ status' = [state |-> description(state),
                  is_running |-> is_running(state),
                  is_healthy |-> is_healthy(state),
                  can_restart |-> is_stopped(state)]
    /\ state' = "NotStarted"
    /\ lastStatus' = IF quiet THEN status ELSE NoStatus
    /\ quiet' = TRUE
    /\ UNCHANGED <<child, config, restartResult, qFrame, lockVars,
                   asyncVars>>

\* commands/backend.rs:17-26
GetBackendStatus ==
    /\ status' = [state |-> description(state),
                  is_running |-> is_running(state),
                  is_healthy |-> is_healthy(state),
                  can_restart |-> is_stopped(state)]
    /\ lastStatus' = IF quiet THEN status ELSE NoStatus
    /\ quiet' = TRUE
    /\ UNCHANGED <<monVars, restartResult, qFrame, lockVars, asyncVars>>

\* commands/backend.rs:49-64
RestartBackend ==
    /\ restartResult' = IF is_running(state) THEN "Err" ELSE "Ok"
    /\ UNCHANGED <<monVars, status, lastStatus, quiet, qFrame, lockVars,
                   asyncVars>>

StatusNext ==
    \/ SetState
    \/ GetBackendStatus
    \/ RestartBackend

StatusSpec == StatusInit /\ [][StatusNext]_vars

---------------------------------------------------------------------------
(* health.rs: wait_until_healthy_blocking, one call followed from its     *)
(* first line to its return.  Time is in whole seconds; a probe that runs *)
(* into the client timeout takes ProbeTimeoutSecs, any other answer comes *)
(* within the second.                                                     *)
ProbeTimeoutSecs == 2

BackoffFloor == 2

BackoffMaxExp == 3

BackoffStride == 3

HcOk(ready) == [kind |-> "Ok", ready |-> ready, duration_secs |-> 0]

HcErr(kind, secs) == [kind |-> kind, ready |-> FALSE, duration_secs |-> secs]

\* health.rs:53-87  the values perform_health_check can return
perform_health_check ==
    {HcOk(TRUE), HcOk(FALSE),
     HcErr("NetworkError", 0),
     HcErr("HealthCheckTimeout", ProbeTimeoutSecs),
     HcErr("UnhealthyResponse", 0),
     HcErr("Internal", 0)}

ProbeDuration(a) ==
    IF a.kind = "HealthCheckTimeout" THEN ProbeTimeoutSecs ELSE 0

\* e.to_string(), up to the text
ErrorString(e) == <<e.kind, e.duration_secs>>

ProbeClass(a) ==
    IF a.kind = "Ok" THEN (IF a.ready THEN "ready" ELSE "notready")
    ELSE "fail"

FirstCalls == 3

Recorded(a) ==
    IF Len(hcFirst) < FirstCalls THEN Append(hcFirst, ProbeClass(a))
    ELSE hcFirst

Max(a, b) == IF a >= b THEN a ELSE b

RECURSIVE Pow2(_)
Pow2(e) == IF e = 0 THEN 1 ELSE 2 * Pow2(e - 1)

Backoff_Min(attempt) ==
    Min(Pow2(Min(attempt \div BackoffStride, BackoffMaxExp)), BackoffFloor)

Backoff_Eight(attempt) == Pow2(BackoffMaxExp)

\* health.rs:43-46
Backoff(attempt) ==
    Max(Pow2(Min(attempt \div BackoffStride, BackoffMaxExp)), BackoffFloor)

ReturnsOk_AnyOk(a) == a.kind = "Ok"

\* health.rs:27-28
ReturnsOk(a) == a.kind = "Ok" /\ a.ready

DeadlineError_ProbeTimeout(c) == HcErr("HealthCheckTimeout", ProbeTimeoutSecs)

\* health.rs:38-40
DeadlineError(c) == HcErr("HealthCheckTimeout", c.startup_timeout_secs)

HealthConfigs ==
    {[DefaultConfig EXCEPT !.startup_timeout_secs = t] :
        t \in {MinStartupTimeout, MaxStartupTimeout}}

HealthInit ==
    /\ MonitorInit
    /\ ThreadsInit
    /\ cfg \in HealthConfigs
    /\ vResult = NoResult
    /\ hcPc = "probe1"
    /\ hcAttempt = 0
    /\ hcNow = 0
    /\ hcSlept = 0
    /\ hcProbes = 0
    /\ hcFirst = <<>>
    /\ hcAnyReady = FALSE
    /\ hcLastError = "None"
    /\ hcLastBackoff = 0
    /\ hcResult = [kind |-> "none", ready |-> FALSE, duration_secs |-> 0]
    /\ QueryIdle
    /\ AsyncIdle

hcFrame ==
    <<monVars, procStatus, mainVars, pollPc, consecutive_failures, pollHist,
      sdVars, flVars, kbResult, ewPc, cfgVars, startVars, qVars>>

\* health.rs:25-31  attempt += 1 and the first probe of the attempt
Probe1(a) ==
    /\ hcPc = "probe1"
    /\ hcAttempt' = hcAttempt + 1
    /\ hcNow' = hcNow + ProbeDuration(a)
    /\ hcProbes' = hcProbes + 1
    /\ hcFirst' = Recorded(a)
    /\ hcAnyReady' = (hcAnyReady \/ ProbeClass(a) = "ready")
    /\ IF ReturnsOk(a)
       THEN /\ hcResult' = a
            /\ hcPc' = "done"
       ELSE /\ hcResult' = hcResult
            /\ hcPc' = IF a.kind = "Ok" THEN "deadline" ELSE "probe2"
    /\ UNCHANGED <<hcSlept, hcLastError, hcLastBackoff, hcFrame, lockVars,
                   asyncVars>>

\* health.rs:32-34  the first probe failed: the probe is made again and only
\* an error of this second probe is looked at
Probe2(a) ==
    /\ hcPc = "probe2"
    /\ hcNow' = hcNow + ProbeDuration(a)
    /\ hcProbes' = hcProbes + 1
    /\ hcFirst' = Recorded(a)
    /\ hcAnyReady' = (hcAnyReady \/ ProbeClass(a) = "ready")
    /\ hcLastError' = IF a.kind = "Ok" THEN hcLastError ELSE ErrorString(a)
    /\ hcPc' = "deadline"
    /\ UNCHANGED <<hcAttempt, hcSlept, hcLastBackoff, hcResult, hcFrame,
                   lockVars, asyncVars>>

\* the probes answer whatever perform_health_check can return
HcProbe1 == \E a \in perform_health_check : Probe1(a)

HcProbe2 == \E a \in perform_health_check : Probe2(a)

\* health.rs:36-41
HcDeadline ==
    /\ hcPc = "deadline"
    /\ hcNow >= cfg.startup_timeout_secs
    /\ hcResult' = DeadlineError(cfg)
    /\ hcPc' = "done"
    /\ UNCHANGED <<hcAttempt, hcNow, hcSlept, hcProbes, hcFirst, hcAnyReady,
                   hcLastError, hcLastBackoff, hcFrame, lockVars,
                   asyncVars>>

\* health.rs:43-48
HcBackoff ==
    /\ hcPc = "deadline"
    /\ hcNow < cfg.startup_timeout_secs
    /\ hcLastBackoff' = Backoff(hcAttempt)
    /\ hcNow' = hcNow + Backoff(hcAttempt)
    /\ hcSlept' = hcSlept + Backoff(hcAttempt)
    /\ hcPc' = "probe1"
    /\ UNCHANGED <<hcAttempt, hcProbes, hcFirst, hcAnyReady, hcLastError,
                   hcResult, hcFrame, lockVars, asyncVars>>

HcStep == HcProbe1 \/ HcProbe2 \/ HcDeadline \/ HcBackoff

HealthNext ==
    \/ HcProbe1
    \/ HcProbe2
    \/ HcDeadline
    \/ HcBackoff

HealthSpec == HealthInit /\ [][HealthNext]_vars

\* the calling thread keeps running
FairHealthSpec == HealthSpec /\ WF_vars(HcStep)

---------------------------------------------------------------------------
(* health.rs: wait_until_healthy_async and wait_until_healthy_blocking,   *)
(* one call of each against the same probe source                         *)
SourceLen == 3

\* the answer to the i-th call; the source goes on giving its last answer
SourceAnswer(i) == source[Min(i, SourceLen)]

\* health.rs:113-116
BackoffAsync(attempt) ==
    Min(Pow2(Min(attempt \div BackoffStride, BackoffMaxExp)), BackoffFloor)

PolicyInit ==
    /\ MonitorInit
    /\ ThreadsInit
    /\ cfg = [DefaultConfig EXCEPT !.startup_timeout_secs = MinStartupTimeout]
    /\ vResult = NoResult
    /\ hcPc = "probe1"
    /\ hcAttempt = 0
    /\ hcNow = 0
    /\ hcSlept = 0
    /\ hcProbes = 0
    /\ hcFirst = <<>>
    /\ hcAnyReady = FALSE
    /\ hcLastError = "None"
    /\ hcLastBackoff = 0
    /\ hcResult = [kind |-> "none", ready |-> FALSE, duration_secs |-> 0]
    /\ QueryIdle
    /\ source \in [1..SourceLen -> perform_health_check]
    /\ aPc = "probe"
    /\ aAttempt = 0
    /\ aNow = 0
    /\ aProbes = 0
    /\ aLastBackoff = 0
    /\ aResult = [kind |-> "none", ready |-> FALSE, duration_secs |-> 0]

aFrame ==
    <<monVars, procStatus, mainVars, pollPc, consecutive_failures, pollHist,
      sdVars, flVars, kbResult, ewPc, otherVars, lockVars, source>>

\* the blocking version, probing the source
BlockingProbe1 == Probe1(SourceAnswer(hcProbes + 1))

BlockingProbe2 == Probe2(SourceAnswer(hcProbes + 1))

\* health.rs:97-104  attempt += 1 and the one probe of the attempt
AsyncProbe ==
    /\ aPc = "probe"
    /\ aAttempt' = aAttempt + 1
    /\ aProbes' = aProbes + 1
    /\ LET a == SourceAnswer(aProbes + 1)
       IN  /\ aNow' = aNow + ProbeDuration(a)
           /\ IF ReturnsOk(a)
              THEN /\ aResult' = a
                   /\ aPc' = "done"
              ELSE /\ aResult' = aResult
                   /\ aPc' = "deadline"
    /\ UNCHANGED <<aLastBackoff, aFrame>>

\* health.rs:106-110
AsyncDeadline ==
    /\ aPc = "deadline"
    /\ aNow >= cfg.startup_timeout_secs
    /\ aResult' = DeadlineError(cfg)
    /\ aPc' = "done"
    /\ UNCHANGED <<aAttempt, aNow, aProbes, aLastBackoff, aFrame>>

\* health.rs:112-117
AsyncBackoff ==
    /\ aPc = "deadline"
    /\ aNow < cfg.startup_timeout_secs
    /\ aLastBackoff' = BackoffAsync(aAttempt)
    /\ aNow' = aNow + BackoffAsync(aAttempt)
    /\ aPc' = "probe"
    /\ UNCHANGED <<aAttempt, aProbes, aResult, aFrame>>

PolicyNext ==
    \/ BlockingProbe1
    \/ BlockingProbe2
    \/ HcDeadline
    \/ HcBackoff
    \/ AsyncProbe
    \/ AsyncDeadline
    \/ AsyncBackoff

PolicySpec == PolicyInit /\ [][PolicyNext]_vars

---------------------------------------------------------------------------
(* Specifications *)

MainStep ==
    MainLoad \/ MainValidate \/ MainPort \/ MainSpawn \/ MainStartThreads

MbStep == MbSetState \/ MbSetChild \/ MbSetConfig \/ MbSpawnPoll

PollStep == \/ PollCheck
            \/ PollCycle
            \/ PollOkGet
            \/ PollOkSet
            \/ PollOkEmit
            \/ PollErrGet
            \/ PollErrSet
            \/ PollErrEmit

SdStep == SdTick \/ SdRecvOk \/ SdRecvTimeout \/ SdKill

FlStep == FlBuild \/ FlRequest \/ FlSignal

Next ==
    \/ MainLoad
    \/ MainValidate
    \/ MainPort
    \/ MainSpawn
    \/ MainStartThreads
    \/ HwFinish
    \/ MbSetState
    \/ MbSetChild
    \/ MbSetConfig
    \/ MbSpawnPoll
    \/ PollCheck
    \/ PollCycle
    \/ PollOkGet
    \/ PollOkSet
    \/ PollOkEmit
    \/ PollErrGet
    \/ PollErrSet
    \/ PollErrEmit
    \/ KillBackend
    \/ ChildExit
    \/ SdCall
    \/ SdTick
    \/ SdRecvOk
    \/ SdRecvTimeout
    \/ SdKill
    \/ FlBuild
    \/ FlRequest
    \/ FlSignal

Spec == Init /\ [][Next]_vars

\* every thread of the program keeps running; the environment (the child
\* exiting, callers of kill_backend and of trigger_backup_and_shutdown) is free
Fairness ==
    /\ WF_vars(MainStep)
    /\ WF_vars(HwFinish)
    /\ WF_vars(MbStep)
    /\ WF_vars(PollStep)
    /\ WF_vars(SdStep)

FairSpec == Spec /\ Fairness /\ WF_vars(FlStep)

\* as FairSpec, but the backup-request thread may stall for ever
StalledFlushSpec == Spec /\ Fairness

NextEW == Next \/ ExitWatch

SpecEW == Init /\ [][NextEW]_vars

FairSpecEW == SpecEW /\ Fairness /\ WF_vars(FlStep) /\ WF_vars(ExitWatch)

---------------------------------------------------------------------------
(* Properties *)

Terminal == {"StoppedClean", "StoppedForce", "Crashed"}

\* C1: every call of trigger_backup_and_shutdown returns, and it returns only
\* through kill_child, which it calls last, whatever the flush step came to.
C1_ShutdownAlwaysKills ==
    /\ [][(sdPc # "done" /\ sdPc' = "done")
            => (sdPc = "kill" /\ sdKill' # "none" /\ child' = "None")]_vars
    /\ [](sdPc = "done" => sdKill # "none")
    /\ (sdPc \in {"waiting", "kill"}) ~> (sdPc = "done")

\* a call that found no config registered has killed the stored child
C1_Witness ==
    sdPc = "done" /\ sdCfg = "None" /\ sdKill = "ok" /\ procStatus = "killed"

\* C2: with a config registered the call reaches kill_child only after the
\* request thread has signalled or the 400 ms have passed, and it leaves the
\* bounded wait even when the request thread never signals.
C2_BoundedWaitBeforeKill ==
    /\ []((sdPc \in {"kill", "done"} /\ sdCfg = "Some")
            => \/ (sdProceed = "signalled" /\ flPc = "finished")
               \/ (sdProceed = "timeout" /\ sdWait = RecvTimeoutTicks))
    /\ []((sdPc = "waiting") => (sdKill = "none" /\ sdCfg = "Some"))
    /\ (sdPc = "waiting") ~> (sdPc = "done")

\* the call has killed the child while the request thread had not signalled
C2_Witness ==
    /\ sdPc = "done"
    /\ sdProceed = "timeout"
    /\ flPc \in {"build", "request", "signal"}
    /\ sdKill = "ok"

\* C3: trigger_backup_and_shutdown returns Err exactly when the kill of the
\* stored child failed; no outcome of the flush step makes it return Err.
C3_ErrIffKillFailed ==
    /\ sdPc = "done" => (sdResult = "Err" <=> sdKill = "failed")
    /\ sdPc = "done" => sdResult \in {"Ok", "Err"}
    /\ sdPc # "done" => sdResult = "none"

\* the flush request was refused, the kill failed, and the call returned Err
C3_Witness ==
    /\ sdPc = "done"
    /\ sdResult = "Err"
    /\ sdProceed = "signalled"
    /\ flOutcome = "refused"

\* C4: between two iterations of the health-poll loop, once the state is
\* Healthy or Unhealthy, it is Unhealthy exactly when at least three cycles
\* have failed in a row, and the counter equals that number of failures.
C4_UnhealthyAtThirdFailure ==
    (pollPc = "sleep" /\ state \in {"Healthy", "Unhealthy"})
        => /\ (state = "Unhealthy" <=> streak >= UnhealthyThreshold)
           /\ consecutive_failures = streak

\* the third failure in a row has just moved Healthy to Unhealthy
C4_Witness ==
    /\ pollPc = "sleep"
    /\ state = "Unhealthy"
    /\ cycleFrom = "Healthy"
    /\ streak = UnhealthyThreshold
    /\ pollEmitted = "unhealthy"

\* C5: a successful cycle that finds the state Unhealthy leaves it Healthy,
\* with the counter at 0 and the ready notification emitted; the state moves
\* from Healthy to Unhealthy only on a run of at least three failures.
C5_OneSuccessRecovers ==
    /\ []((pollPc = "sleep" /\ lastCycle = "ok" /\ cycleFrom = "Unhealthy")
            => (state = "Healthy" /\ consecutive_failures = 0
                /\ pollEmitted = "ready"))
    /\ [][(state = "Healthy" /\ state' = "Unhealthy")
            => (streak >= UnhealthyThreshold)]_vars
    /\ [][(pollPc = "ok_emit" /\ pollPc' # "ok_emit")
            => (pollEmitted' = "ready")]_vars

\* the loop has recovered from Unhealthy with one successful cycle
C5_Witness ==
    /\ pollPc = "sleep"
    /\ lastCycle = "ok"
    /\ cycleFrom = "Unhealthy"
    /\ state = "Healthy"

\* C6: after the child has exited with code 0 the lifecycle state becomes
\* StoppedClean, and after a non-zero exit it becomes Crashed.
C6_ExitSetsState ==
    /\ (procStatus = "exited0") ~> (state = "StoppedClean")
    /\ (procStatus = "exitedErr") ~> (state = "Crashed")

\* C7: a terminal lifecycle state is never replaced by Healthy or Unhealthy.
C7_TerminalNotOverwritten ==
    [][(state \in Terminal) => (state' \notin {"Healthy", "Unhealthy"})]_vars

AllowedTransitions ==
    {<<"NotStarted", "Starting">>,
     <<"Starting", "Healthy">>, <<"Starting", "Crashed">>,
     <<"Healthy", "Unhealthy">>, <<"Unhealthy", "Healthy">>,
     <<"Healthy", "Stopping">>, <<"Unhealthy", "Stopping">>,
     <<"Stopping", "StoppedClean">>, <<"Stopping", "StoppedForce">>,
     <<"Healthy", "Crashed">>}

\* C8: every change of the lifecycle state is one of the allowed transitions.
C8_OnlyAllowedTransitions ==
    [][(state' # state) => (<<state, state'>> \in AllowedTransitions)]_vars

\* C9: once the lifecycle state is terminal the health-poll loop stops.
C9_TerminalStopsPolling ==
    (state \in Terminal) ~> (pollPc = "done")

\* C10: once a shutdown has killed the child the health-poll loop stops.
C10_KillStopsPolling ==
    (procStatus = "killed") ~> (pollPc = "done")

\* C11: when a shutdown terminates the child of a backend that is Healthy,
\* Unhealthy or Stopping, the lifecycle state is StoppedClean or StoppedForce
\* as the shutdown completes.
C11_ShutdownEndsStopped ==
    [][(/\ sdPc = "kill"
        /\ sdPc' = "done"
        /\ sdKill' = "ok"
        /\ state \in {"Healthy", "Unhealthy", "Stopping"})
       => (state' \in {"StoppedClean", "StoppedForce"})]_vars

---------------------------------------------------------------------------
(* wait_until_healthy_blocking *)

\* C12: the call returns Ok only with a status whose ready is true, and
\* never returns Ok when no probe has answered ready = true.
C12_OkOnlyWhenReady ==
    (hcResult.kind = "Ok") => (hcPc = "done" /\ hcResult.ready /\ hcAnyReady)

\* a not-ready answer was passed over and a later ready one returned
C12_Witness ==
    /\ hcPc = "done"
    /\ hcResult = HcOk(TRUE)
    /\ Len(hcFirst) >= 2
    /\ hcFirst[1] = "notready"

\* C13: once a probe of the call has answered ready = true the call has
\* returned Ok: no further probe, no further backoff.
C13_ReadyAnswerReturns ==
    hcAnyReady => (hcPc = "done" /\ hcResult = HcOk(TRUE))

\* what the call returns when no probe is ever ready, and when
HcTimedOut ==
    /\ hcResult = HcErr("HealthCheckTimeout", cfg.startup_timeout_secs)
    /\ hcNow >= cfg.startup_timeout_secs

\* C14: the call terminates; if no probe is ready it returns
\* HealthCheckTimeout{startup_timeout_secs}, not before the startup timeout has
\* elapsed, and no error of a probe is ever returned.
C14_OnlyDeadlineSurfaced ==
    /\ <>(hcPc = "done")
    /\ []((hcPc = "done" /\ ~hcAnyReady) => HcTimedOut)
    /\ []((hcPc = "done" /\ hcResult.kind # "Ok") => HcTimedOut)

\* the deadline passed after probes had failed with errors of their own
C14_Witness ==
    /\ hcPc = "done"
    /\ HcTimedOut
    /\ hcLastError = ErrorString(HcErr("HealthCheckTimeout", ProbeTimeoutSecs))

\* C15: with a startup timeout of 5 s and a probe source that fails on its
\* first two calls and answers ready = true on the third, the call returns Ok
\* as the third answer arrives, having slept one backoff of at most 5 s.
C15_ThirdCallReady ==
    (/\ cfg.startup_timeout_secs = MinStartupTimeout
     /\ hcFirst = <<"fail", "fail", "ready">>)
    => (/\ hcPc = "done"
        /\ hcResult = HcOk(TRUE)
        /\ hcProbes = 3
        /\ hcSlept = hcLastBackoff
        /\ hcSlept <= MinStartupTimeout)

C15_Witness ==
    /\ cfg.startup_timeout_secs = MinStartupTimeout
    /\ hcFirst = <<"fail", "fail", "ready">>
    /\ hcPc = "done"
    /\ hcResult = HcOk(TRUE)

\* the backoff table of the claim
BackoffTable(n) == IF n <= 5 THEN 2 ELSE IF n <= 8 THEN 4 ELSE 8

---------------------------------------------------------------------------
(* validate *)

\* C17 as stated: a configuration whose binary does not exist fails with
\* BinaryNotFound whatever its other fields are.
C17_MissingBinaryAlways ==
    (vResult # NoResult /\ ~cfg.binary_exists)
    => (vResult.kind = "BinaryNotFound")

\* C17: a configuration whose binary does not exist, and whose host is not
\* empty and whose port is in 1024..65535, fails with BinaryNotFound whatever
\* its timeouts are.
C17_MissingBinaryAfterHostPort ==
    (/\ vResult # NoResult
     /\ ~cfg.binary_exists
     /\ cfg.host # ""
     /\ cfg.port \in MinPort..U16Max)
    => (vResult.kind = "BinaryNotFound")

\* a missing binary is reported although both timeouts are too short
C17_Witness ==
    /\ vResult = ErrResult("BinaryNotFound", "binary_path")
    /\ cfg.startup_timeout_secs < MinStartupTimeout
    /\ cfg.shutdown_timeout_secs < MinShutdownTimeout

\* C18: a configuration whose port is outside 1024..65535 fails with
\* ConfigError and with no other kind, whatever its other fields are.
C18_BadPortIsConfigError ==
    (vResult # NoResult /\ cfg.port \notin MinPort..U16Max)
    => (vResult.kind = "ConfigError")

\* the port is reported although the binary is missing as well
C18_Witness ==
    /\ vResult = ErrResult("ConfigError", "port")
    /\ ~cfg.binary_exists
    /\ cfg.port < MinPort

---------------------------------------------------------------------------
(* start-up sequence and status query *)

StartupFailed ==
    \/ mainLoad \notin {NoResult, OkResult}
    \/ mainValid \notin {NoResult, OkResult}
    \/ mainPort \in {"Ok(false)", "Err"}

NothingStarted ==
    /\ procStatus = "unspawned"
    /\ hwPc = "none"
    /\ mbPc = "none"
    /\ pollPc = "none"

\* C19: the child is spawned only after load, validation and the port check
\* succeeded, the health wait and the monitor are started only after the
\* spawn succeeded, and after a failed step the error notification is emitted
\* and no later step runs.
C19_StartupInOrder ==
    /\ (procStatus # "unspawned")
       => (mainLoad = OkResult /\ mainValid = OkResult
           /\ mainPort = "Ok(true)")
    /\ (hwPc # "none" \/ mbPc # "none" \/ pollPc # "none")
       => (procStatus # "unspawned" /\ mainPc = "done")
    /\ StartupFailed => (mainPc = "aborted_error")
    /\ (mainPc = "aborted_error") => NothingStarted

\* the port check itself failed and start-up was aborted before the spawn
C19_Witness ==
    /\ mainPort = "Err"
    /\ mainPc = "aborted_error"
    /\ NothingStarted

\* C20: the status query reports is_running exactly for Starting and Healthy,
\* is_healthy exactly for Healthy and can_restart exactly for StoppedClean,
\* StoppedForce and Crashed; is_running and can_restart are never both true
\* and is_healthy implies is_running.
C20_StatusFlags ==
    [][(status' # status)
       => (/\ status'.state = description(state)
           /\ status'.is_running = (state \in {"Starting", "Healthy"})
           /\ status'.is_healthy = (state = "Healthy")
           /\ status'.can_restart
                = (state \in {"StoppedClean", "StoppedForce", "Crashed"})
           /\ ~(status'.is_running /\ status'.can_restart)
           /\ (status'.is_healthy => status'.is_running))]_vars

\* the query answered for a crashed backend
C20_Witness ==
    /\ status.state = "Crashed"
    /\ status.can_restart
    /\ ~status.is_running

---------------------------------------------------------------------------
(* status query, restart, notifications *)

\* C21: the status query changes neither the lifecycle state nor the child
\* handle nor the config, and a query that follows another with no transition
\* between them returns the same result.
C21_QueryReadOnlyIdempotent ==
    [][(status' # status \/ lastStatus' # lastStatus)
       => (/\ state' = state
           /\ child' = child
           /\ config' = config
           /\ (lastStatus' # NoStatus => status' = lastStatus'))]_vars

\* a second query of a healthy backend, nothing having happened in between
C21_Witness ==
    /\ lastStatus # NoStatus
    /\ status = lastStatus
    /\ status.state = "Healthy"
    /\ quiet

\* C22: with auto_restart set, an abnormal exit of the child is followed by a
\* restart that brings up a child again.
C22_CrashLeadsToRestart ==
    (cfg.auto_restart /\ procStatus = "exitedErr") ~> (procStatus = "running")

\* C23: a ready notification is emitted only together with a change of the
\* lifecycle state into Healthy, or by the thread that has just made that
\* change; the start-up health wait makes no change of state.
C23_ReadyOnlyForTransition ==
    [][(hwPc' = "emitted_ready" /\ hwPc # "emitted_ready")
       => (state # "Healthy" /\ state' = "Healthy")]_vars

---------------------------------------------------------------------------
(* locks, child handle, health-poll loop *)

\* C24: no Monitor mutex is held while the shutdown coordinator is in its
\* bounded wait for the backup request.
C24_NoLockWhileWaiting ==
    (sdPc = "waiting") => (configLock = "free")

\* C25: a kill is issued on the stored child at most once, the handle is gone
\* afterwards, and a kill_child that finds no child returns Ok.
C25_ChildReleasedOnce ==
    /\ kills <= 1
    /\ (kills = 1) => (child = "None")
    /\ (sdKill = "nochild") => (sdResult = "Ok")

\* the child was killed by one call and a later call found no child
C25_Witness ==
    /\ kills = 1
    /\ procStatus = "killed"
    /\ kbResult = "Ok"
    /\ sdKill = "nochild"
    /\ sdResult = "Ok"

\* C26: a step of the health-poll loop leaves the child process, the child
\* handle and the config alone, and writes no state but Healthy or Unhealthy.
C26_PollLoopFrame ==
    [][PollStep
       => (/\ procStatus' = procStatus
           /\ child' = child
           /\ config' = config
           /\ (state' # state => state' \in {"Healthy", "Unhealthy"})
           /\ pollEmitted' \in {pollEmitted, "none", "ready", "unhealthy"})]_vars

\* three failed cycles were absorbed: Unhealthy written and notified, the child
\* alive and still registered
C26_Witness ==
    /\ state = "Unhealthy"
    /\ pollEmitted = "unhealthy"
    /\ procStatus = "running"
    /\ child = "Some"

---------------------------------------------------------------------------
(* validate, as a whole *)

\* the five conditions of the claim, in its order
Conditions(c) ==
    <<c.host # "",
      c.port >= 1024 /\ c.port <= 65535,
      c.binary_exists,
      c.startup_timeout_secs >= 5,
      c.shutdown_timeout_secs >= 10>>

ConditionKinds ==
    <<"ConfigError", "ConfigError", "BinaryNotFound", "ConfigError",
      "ConfigError">>

\* index of the first condition that fails, 0 when all hold
FirstFailing(c) ==
    IF \A i \in 1..5 : Conditions(c)[i] THEN 0
    ELSE CHOOSE i \in 1..5 :
           /\ ~Conditions(c)[i]
           /\ \A j \in 1..(i - 1) : Conditions(c)[j]

\* C27: validate returns Ok exactly when all five conditions hold, otherwise
\* the error of the first failing condition in the order host, port, binary,
\* startup timeout, shutdown timeout, of kind BinaryNotFound for the binary
\* and ConfigError for the others; the call changes nothing.
C27_ValidateFirstFailing ==
    [][(vResult' # vResult)
       => (/\ cfg' = cfg
           /\ monVars' = monVars
           /\ (vResult' = OkResult) = (FirstFailing(cfg) = 0)
           /\ (FirstFailing(cfg) # 0)
              => (vResult'.kind = ConditionKinds[FirstFailing(cfg)]))]_vars

\* two conditions fail and the earlier one is the one reported
C27_Witness ==
    /\ vResult = ErrResult("ConfigError", "startup_timeout_secs")
    /\ cfg.shutdown_timeout_secs < MinShutdownTimeout

---------------------------------------------------------------------------
(* kill_child against start-up and against a failing kill *)

\* kill_backend, or the kill_backend at the end of
\* trigger_backup_and_shutdown, returns Ok in this step
ShutdownReturnsOk ==
    \/ (sdPc = "kill" /\ sdPc' = "done" /\ sdResult' = "Ok")
    \/ (sdPc' = sdPc /\ kbResult # "Ok" /\ kbResult' = "Ok")

\* C28: a shutdown that returns Ok while the monitor thread has started but
\* not yet stored the handle of the spawned child leaves no child alive.
C28_ShutdownDuringStartupKills ==
    [][(/\ ShutdownReturnsOk
        /\ procStatus = "running"
        /\ mbPc \in {"set_state", "set_child"})
       => (procStatus' # "running")]_vars

\* C29: whenever the lifecycle state is Starting or Healthy the Monitor holds
\* a child handle.
C29_RunningHoldsChild ==
    is_running(state) => (child = "Some")

\* the kill issued on the stored child fails in this step
KillFailedStep ==
    /\ kills' # kills
    /\ \/ (sdPc' = sdPc /\ kbResult' = "Err")
       \/ (sdPc = "kill" /\ sdPc' = "done" /\ sdResult' = "Err")

\* C30: when the kill of the stored child fails the child stays registered.
C30_FailedKillKeepsChild ==
    [][KillFailedStep => (child' = "Some")]_vars

---------------------------------------------------------------------------
(* restart_backend *)

\* C31: restart_backend does not return Ok in a state in which the child may
\* still be alive (Starting, Healthy, Unhealthy, Stopping), where the status
\* query reports can_restart = false.
C31_RestartOnlyWhenStopped ==
    [][(restartResult' = "Ok" /\ restartResult # "Ok")
       => (state \notin {"Starting", "Healthy", "Unhealthy", "Stopping"})]_vars

---------------------------------------------------------------------------
(* Monitor mutexes *)

\* C33: the shutdown call has released the config mutex when it goes on to
\* lock the child mutex, the config mutex is held only during the bounded
\* wait and is always released again, and monitor_backend, which locks it in
\* set_config, always gets past set_config.
C33_NoNestedLockNoStarvation ==
    /\ [][(sdPc = "kill" /\ sdPc' = "done") => (configLock = "free")]_vars
    /\ [](configLock # "free" => sdPc = "waiting")
    /\ (configLock # "free") ~> (configLock = "free")
    /\ (mbPc = "set_config") ~> (mbPc # "set_config")

\* the config mutex was held through a wait that timed out, then released, and
\* the child mutex taken for the kill
C33_Witness ==
    /\ sdPc = "done"
    /\ sdProceed = "timeout"
    /\ sdKill = "ok"
    /\ configLock = "free"

---------------------------------------------------------------------------
(* the two versions of the health wait *)

\* C32: against the same probe source, wait_until_healthy_async and
\* wait_until_healthy_blocking have slept the same backoff after the same
\* attempt and, when both have returned, have issued the same number of
\* probes and return the same result.
C32_SameRetryPolicy ==
    /\ (/\ hcPc = "probe1"
        /\ aPc = "probe"
        /\ hcAttempt >= 1
        /\ aAttempt = hcAttempt)
       => (aLastBackoff = hcLastBackoff)
    /\ (hcPc = "done" /\ aPc = "done")
       => (aProbes = hcProbes /\ aResult = hcResult)

====
